---------------------------- MODULE Spec2Model ----------------------------
(***************************************************************************)
(* A model of QuantumSimulator.py: registers as complex tensors of shape   *)
(* (2,)*n, gates applied by tensordot + transpose, and measurement with    *)
(* in-place collapse.                                                      *)
(*                                                                         *)
(* Numbers.  Every amplitude the catalog can produce from the inputs drawn *)
(* here lies in Z[w]/sqrt(den), w = exp(i*pi/4): an amplitude is a 4-tuple *)
(* <<a,b,c,d>> standing for a + b*w + c*w^2 + d*w^3 (w^2 = i, w^4 = -1),   *)
(* and a tensor carries one common scale den = <<p,q>> standing for        *)
(* p + q*sqrt(2): the entry's value is amp / sqrt(den).  Arithmetic is     *)
(* exact (IEEE rounding is not modelled); the IEEE special value NaN is    *)
(* modelled, since the code can produce it (0 * inf).                      *)
(*                                                                         *)
(* Axes are numbered from 0 as in the source; a multi-index is a sequence  *)
(* of bits whose element i+1 is the coordinate on axis i.                  *)
(***************************************************************************)
EXTENDS Integers, Sequences, FiniteSets, TLC

\* register: the caller's array; out: the array the latest gate application
\* returned (<<>> before any); last: the latest call, its arguments, what it
\* returned and the value its argument had before; steps: calls made so far;
\* origin: how `register` was built
VARIABLES register, out, last, steps, origin

vars == <<register, out, last, steps, origin>>

---------------------------------------------------------------------------
(* Bounds of the model *)

\* ranks of the registers gates are applied to with invalid target indices
MaxQubits == 2
\* operations per session
MaxSteps == 2
\* cp.random.rand() is drawn from the grid {0/UGrid .. (UGrid-1)/UGrid} of [0,1)
UGrid == 2
\* dense random_register draws per rank
MaxDraws == 1
\* ranks of the registers in the gate-application specification
MaxRank == 4

\* the register ranks the tests use
UnaryTestQubits == 2
BinaryTestQubits == 3
TernaryTestQubits == 4

---------------------------------------------------------------------------
(* Complex numbers of Z[w] *)

NZero == <<0, 0, 0, 0>>
NOne == <<1, 0, 0, 0>>
NI == <<0, 0, 1, 0>>
NReal(x) == <<x, 0, 0, 0>>
NCplx(x, y) == <<x, 0, y, 0>>

NAdd(x, y) == <<x[1] + y[1], x[2] + y[2], x[3] + y[3], x[4] + y[4]>>

NNeg(x) == <<-x[1], -x[2], -x[3], -x[4]>>

NMul(x, y) ==
    <<x[1]*y[1] - x[2]*y[4] - x[3]*y[3] - x[4]*y[2],
      x[1]*y[2] + x[2]*y[1] - x[3]*y[4] - x[4]*y[3],
      x[1]*y[3] + x[2]*y[2] + x[3]*y[1] - x[4]*y[4],
      x[1]*y[4] + x[2]*y[3] + x[3]*y[2] + x[4]*y[1]>>

\* w^m, m >= 0: np.exp(1j * angle) for angle = m*pi/4
RECURSIVE NPowW(_)
NPowW(m) == IF m = 0 THEN NOne ELSE NMul(<<0, 1, 0, 0>>, NPowW(m - 1))

\* |x|^2 as the pair <<p,q>> = p + q*sqrt(2)
Abs2(x) ==
    <<x[1]*x[1] + x[2]*x[2] + x[3]*x[3] + x[4]*x[4],
      x[1]*x[2] + x[2]*x[3] + x[3]*x[4] - x[4]*x[1]>>

RAdd(r, s) == <<r[1] + s[1], r[2] + s[2]>>
RScale(k, r) == <<k * r[1], k * r[2]>>
RZero == <<0, 0>>
ROne == <<1, 0>>

\* p + q*sqrt(2) > 0
RPos(r) ==
    LET p == r[1]
        q == r[2]
    IN  \/ p > 0 /\ q >= 0
        \/ p >= 0 /\ q > 0
        \/ p > 0 /\ q < 0 /\ p*p > 2*q*q
        \/ p < 0 /\ q > 0 /\ 2*q*q > p*p

RLess(r, s) == RPos(<<s[1] - r[1], s[2] - r[2]>>)

---------------------------------------------------------------------------
(* Multi-indices and tensors *)

Bit == {0, 1}
Bits(n) == [1..n -> Bit]

\* the coordinate on axis a of the entry at flat (C-order) position m of an
\* array of shape (2,)*n: axis 0 is the most significant
BitAt(m, n, a) == (m \div 2^(n - 1 - a)) % 2

\* cp.unravel_index(m, (2,)*n)
Unravel(m, n) == [i \in 1..n |-> BitAt(m, n, i - 1)]

\* the flat (C-order) position of a multi-index: ravel / reshape
RECURSIVE RavelTo(_, _)
RavelTo(idx, i) == IF i = 0 THEN 0 ELSE 2 * RavelTo(idx, i - 1) + idx[i]

Ravel(idx) == RavelTo(idx, Len(idx))

RECURSIVE NSumTo(_, _)
NSumTo(f, m) == IF m = 0 THEN NZero ELSE NAdd(f[m], NSumTo(f, m - 1))

\* the sum of a sequence of numbers
NSum(f) == NSumTo(f, Len(f))

RECURSIVE RSumTo(_, _)
RSumTo(f, m) == IF m = 0 THEN RZero ELSE RAdd(f[m], RSumTo(f, m - 1))

RSum(f) == RSumTo(f, Len(f))

\* an array of shape (2,)*n: amp is its buffer in C order (amp[m + 1] is the
\* entry at flat position m), every entry standing for amp / sqrt(den);
\* nan: every entry is NaN (amp is then meaningless, kept zero)
Tensor(n, amp, den, nan) == [ndim |-> n, amp |-> amp, den |-> den, nan |-> nan]

\* register[idx]
At(t, idx) == t.amp[Ravel(idx) + 1]

\* cp.sum(cp.abs(t) ** 2) * den: the squared norm is Norm2Num(t) / t.den
Norm2Num(t) == RSum([m \in 1..(2^t.ndim) |-> Abs2(t.amp[m])])

\* the sum of squared magnitudes of all entries equals 1
Normalized(t) == ~t.nan /\ RPos(t.den) /\ Norm2Num(t) = t.den

Zeros(n) == [m \in 1..(2^n) |-> NZero]

NaNTensor(n) == Tensor(n, Zeros(n), ROne, TRUE)

---------------------------------------------------------------------------
(* Gate application engine *)

Range(s) == {s[r] : r \in 1..Len(s)}

\* indices.index(i): 0-based position of the first occurrence
IndexOf(indices, i) ==
    (CHOOSE r \in 1..Len(indices) :
        indices[r] = i /\ \A q \in 1..(r - 1) : indices[q] # i) - 1

\* the loop of get_transposition over i = 0 .. n-1
RECURSIVE get_transposition_loop(_, _, _, _, _)
get_transposition_loop(n, indices, i, ptr, transpose) ==
    IF i = n THEN transpose
    ELSE IF i \in Range(indices)
         THEN get_transposition_loop(n, indices, i + 1, ptr,
                  [transpose EXCEPT ![i + 1] = n - Len(indices) + IndexOf(indices, i)])
         ELSE get_transposition_loop(n, indices, i + 1, ptr + 1,
                  [transpose EXCEPT ![i + 1] = ptr])

\* a variant that places each target axis by its rank among the sorted
\* targets instead of its position in the list
get_transposition_sorted(n, indices) ==
    [i \in 1..n |->
        IF (i - 1) \in Range(indices)
        THEN n - Len(indices) + Cardinality({t \in Range(indices) : t < i - 1})
        ELSE Cardinality({a \in 0..(i - 2) : a \notin Range(indices)})]

get_transposition(n, indices) ==
    get_transposition_loop(n, indices, 0, 0, [i \in 1..n |-> 0])

Ok(t) == [err |-> "", val |-> t]
Fail(e, t) == [err |-> e, val |-> t]

\* the axes of the register that are not contracted, in increasing order
RECURSIVE RestAxes(_, _, _)
RestAxes(n, axes, i) ==
    IF i = n THEN <<>>
    ELSE (IF i \in Range(axes) THEN <<>> ELSE <<i>>) \o RestAxes(n, axes, i + 1)

\* the sequence f[1], ..., f[n]
RECURSIVE SeqOf(_, _)
SeqOf(f, n) == IF n = 0 THEN <<>> ELSE Append(SeqOf(f, n - 1), f[n])

\* the offset in the buffer of an array of shape (2,)*n that the coordinates
\* of flat position m of an array of shape (2,)*k contribute, when its axis
\* r-1 is the array's axis to[r] (to[r] < 0: contributes nothing)
RECURSIVE Offset(_, _, _, _, _)
Offset(m, k, to, n, r) ==
    IF r = 0 THEN 0
    ELSE Offset(m, k, to, n, r - 1)
         + (IF to[r] < 0 THEN 0 ELSE BitAt(m, k, r - 1) * 2^(n - 1 - to[r]))

\* cp.tensordot(register, gate, axes=(indices, range(k))): the gate's axes
\* 0..k-1 are summed against the register's axes `indices`; the result's
\* axes are the register's other axes in order, then the gate's axes k..2k-1.
\* A register axis outside [-n, n) is an IndexError, a repeated one a
\* ValueError; a negative axis counts from the end.
tensordot(reg, gate, indices) ==
    LET n == reg.ndim
        k == Len(indices)
    IN  IF \E r \in 1..k : indices[r] < -n \/ indices[r] >= n
        THEN Fail("IndexError", reg)
        ELSE LET axes == SeqOf([r \in 1..k |-> indices[r] % n], k)
                 rest == RestAxes(n, axes, 0)
                 \* result axis r-1 is register axis rest[r] (r <= n-k), or
                 \* a gate axis
                 free == SeqOf([r \in 1..n |-> IF r <= n - k THEN rest[r] ELSE -1], n)
                 \* the register offset of each value of the summed axes
                 inOff == SeqOf([in \in 1..(2^k) |-> Offset(in - 1, k, axes, n, k)], 2^k)
                 \* entry at flat position j of the result
                 entry(j) ==
                     LET jOff == Offset(j, n, free, n, n)
                         gOff == j % 2^k
                     IN  NSum([in \in 1..(2^k) |->
                                 NMul(reg.amp[inOff[in] + jOff + 1],
                                      gate.amp[(in - 1) * 2^k + gOff + 1])])
             IN  IF Cardinality(Range(axes)) # k
                 THEN Fail("ValueError", reg)
                 ELSE IF reg.nan THEN Ok(NaNTensor(n))
                 ELSE Ok(Tensor(n, SeqOf([m \in 1..(2^n) |-> entry(m - 1)], 2^n),
                                RScale(gate.den, reg.den), FALSE))

\* a variant that moves axis m of t to axis perm[m] of the result
ndarray_transpose_inverse(t, perm) ==
    LET n == t.ndim
        inv == SeqOf([a \in 1..n |-> (CHOOSE m \in 1..n : perm[m] = a - 1) - 1], n)
    IN  IF Len(perm) # n \/ Range(perm) # 0..(n - 1)
        THEN Fail("ValueError", t)
        ELSE Ok([t EXCEPT !.amp =
                    SeqOf([j \in 1..(2^n) |-> t.amp[Offset(j - 1, n, inv, n, n) + 1]],
                          2^n)])

\* t.transpose(perm): axis m of the result is axis perm[m] of t; perm must
\* be a permutation of the axes (ValueError otherwise)
ndarray_transpose(t, perm) ==
    LET n == t.ndim
    IN  IF Len(perm) # n \/ Range(perm) # 0..(n - 1)
        THEN Fail("ValueError", t)
        ELSE Ok([t EXCEPT !.amp =
                    SeqOf([j \in 1..(2^n) |-> t.amp[Offset(j - 1, n, perm, n, n) + 1]],
                          2^n)])

\* apply_gate(gate, *indices)(register)
apply_gate(gate, indices, reg) ==
    LET td == tensordot(reg, gate, indices)
    IN  IF td.err # "" THEN td
        ELSE ndarray_transpose(td.val, get_transposition(reg.ndim, indices))

---------------------------------------------------------------------------
(* Gate catalog *)

\* cp.array(flat).reshape((2,)*rank), the entries scaled by 1/sqrt(den)
Gate(k, flat, den) == [k |-> k, amp |-> flat, den |-> den]

XGate == Gate(1, <<NZero, NOne, NOne, NZero>>, 1)
YGate == Gate(1, <<NZero, NNeg(NI), NI, NZero>>, 1)
ZGate == Gate(1, <<NOne, NZero, NZero, NNeg(NOne)>>, 1)
\* angle = m * pi/4
RGate(m) == Gate(1, <<NOne, NZero, NZero, NPowW(m)>>, 1)
HGate == Gate(1, <<NOne, NOne, NOne, NNeg(NOne)>>, 2)
SNOTGate == Gate(1, <<NCplx(1, 1), NCplx(1, -1), NCplx(1, -1), NCplx(1, 1)>>, 4)

SWAPGate == Gate(2, <<NOne, NZero, NZero, NZero,
                      NZero, NZero, NOne, NZero,
                      NZero, NOne, NZero, NZero,
                      NZero, NZero, NZero, NOne>>, 1)
\* a variant that flips the target with a sign change on one branch
CNOTGateSigned == Gate(2, <<NOne, NZero, NZero, NZero,
                            NZero, NOne, NZero, NZero,
                            NZero, NZero, NZero, NOne,
                            NZero, NZero, NNeg(NOne), NZero>>, 1)
CNOTGate == Gate(2, <<NOne, NZero, NZero, NZero,
                      NZero, NOne, NZero, NZero,
                      NZero, NZero, NZero, NOne,
                      NZero, NZero, NOne, NZero>>, 1)
CYGate == Gate(2, <<NOne, NZero, NZero, NZero,
                    NZero, NOne, NZero, NZero,
                    NZero, NZero, NZero, NNeg(NI),
                    NZero, NZero, NI, NZero>>, 1)
CZGate == Gate(2, <<NOne, NZero, NZero, NZero,
                    NZero, NOne, NZero, NZero,
                    NZero, NZero, NOne, NZero,
                    NZero, NZero, NZero, NNeg(NOne)>>, 1)

\* cp.eye(8) with rows/columns lo, lo+1 exchanged, flattened row by row
Eye8Swapped(lo) ==
    SeqOf([m \in 1..64 |->
              LET r == (m - 1) \div 8
                  c == (m - 1) % 8
              IN  IF r \in {lo, lo + 1} /\ c \in {lo, lo + 1}
                  THEN (IF r # c THEN NOne ELSE NZero)
                  ELSE (IF r = c THEN NOne ELSE NZero)], 64)

CCNOTGate == Gate(3, Eye8Swapped(6), 1)
CSWAPGate == Gate(3, Eye8Swapped(5), 1)

\* a gate-application operator (the closure a catalog function returns),
\* as the pair of its name and its bound arguments
UnaryNames == {"X", "Y", "Z", "S", "T", "H", "SNOT"}
BinaryNames == {"SWAP", "CNOT", "CY", "CZ"}
TernaryNames == {"CCNOT", "CSWAP"}

Op(name, args) == [name |-> name, args |-> args]

\* the target indices bound in an operator
Targets(op) == IF op.name = "R" THEN <<op.args[1]>> ELSE op.args

\* the gate array an operator binds
GateOf(op) ==
    CASE op.name = "X" -> XGate
      [] op.name = "Y" -> YGate
      [] op.name = "Z" -> ZGate
      [] op.name = "R" -> RGate(op.args[2])
      [] op.name = "S" -> RGate(2)
      [] op.name = "T" -> RGate(1)
      [] op.name = "H" -> HGate
      [] op.name = "SNOT" -> SNOTGate
      [] op.name = "SWAP" -> SWAPGate
      [] op.name = "CNOT" -> CNOTGate
      [] op.name = "CY" -> CYGate
      [] op.name = "CZ" -> CZGate
      [] op.name = "CCNOT" -> CCNOTGate
      [] op.name = "CSWAP" -> CSWAPGate

\* op(register)
Call(op, reg) == apply_gate(GateOf(op), Targets(op), reg)

---------------------------------------------------------------------------
(* State tensor construction *)

OneHot(n, idx, v) == [m \in 1..(2^n) |-> IF m = Ravel(idx) + 1 THEN v ELSE NZero]

\* quantum_register(number_of_qubits): |00...0>
quantum_register(n) == Tensor(n, OneHot(n, [i \in 1..n |-> 0], NOne), ROne, FALSE)

\* random_register(number_of_qubits), `draw` being the value of
\* cp.random.randn(*shape) + cp.random.randn(*shape) * 1j: register / norm
random_register(n, draw) ==
    LET t == Tensor(n, draw, ROne, FALSE)
    IN  IF Norm2Num(t) = RZero THEN NaNTensor(n)
        ELSE [t EXCEPT !.den = Norm2Num(t)]

\* every entry of the draw non-zero and distinct
DenseDraws(n) ==
    {[m \in 1..(2^n) |-> NCplx(m, (((m - 1) * s) % 3) - 1)] : s \in 1..MaxDraws}

\* the draws: one non-zero entry (-2j), or every entry non-zero
Draws(n) == {OneHot(n, idx, NCplx(0, -2)) : idx \in Bits(n)} \cup DenseDraws(n)

\* arrays a caller builds directly with cp.array, as the tests do
\* [[1, -2j], [3, 0]] / 14 ** 0.5
PartialFixture ==
    Tensor(2, <<NOne, NCplx(0, -2), NReal(3), NZero>>, <<14, 0>>, FALSE)
\* [0.3, 0.4j, -0.5, 0.5 ** 0.5].reshape((2, 2)), in tenths
FullFixture ==
    Tensor(2, <<NReal(3), NCplx(0, 4), NReal(-5), <<0, 5, 0, -5>>>>, <<100, 0>>, FALSE)
\* an array that is not normalized, and the all-zero array
RawArrays(n) ==
    {Tensor(n, [m \in 1..(2^n) |-> NCplx(m - 1, 1)], ROne, FALSE),
     Tensor(n, Zeros(n), ROne, FALSE)}

---------------------------------------------------------------------------
(* Measurement *)

\* cp.sum(cp.abs(register) ** 2, axis=axis)[b], times den
Marginal(reg, index, b) ==
    RSum([m \in 1..(2^reg.ndim) |->
             IF BitAt(m - 1, reg.ndim, index) = b THEN Abs2(reg.amp[m]) ELSE RZero])

\* int(cp.random.rand() > p) with p = probs[0] / cp.sum(probs) and the draw
\* un / UGrid; a comparison with NaN is false
SampleBit(reg, index, un) ==
    LET p0 == Marginal(reg, index, 0)
        tot == RAdd(p0, Marginal(reg, index, 1))
    IN  IF reg.nan \/ tot = RZero THEN 0
        ELSE IF RLess(RScale(UGrid, p0), RScale(un, tot)) THEN 1 ELSE 0

\* measure(index)(register) with the draw un / UGrid: the bit returned and the
\* value the register is left with
measure(index, reg, un) ==
    LET result == SampleBit(reg, index, un)
        kept == [m \in 1..(2^reg.ndim) |->
                    IF BitAt(m - 1, reg.ndim, index) = result THEN reg.amp[m] ELSE NZero]
        zeroed == [reg EXCEPT !.amp = kept]
    IN  [ret |-> result,
         reg |-> IF reg.nan \/ Norm2Num(zeroed) = RZero
                 THEN NaNTensor(reg.ndim)
                 ELSE [zeroed EXCEPT !.den = Norm2Num(zeroed)]]

\* the flat positions cp.random.choice can return: those of non-zero probability
Choices(reg) ==
    {m \in 0..(2^reg.ndim - 1) : reg.amp[m + 1] # NZero}

\* a variant that normalizes the caller's array through the view ravel()
\* returns (r /= norm instead of r = r / norm)
measure_all_inplace(collapse, reg, m) ==
    LET multiindex == Unravel(m, reg.ndim)
    IN  [ret |-> multiindex,
         reg |-> IF collapse
                 THEN Tensor(reg.ndim, OneHot(reg.ndim, multiindex, NOne), ROne, FALSE)
                 ELSE [reg EXCEPT !.den = RScale(reg.den[1], Norm2Num(reg))]]

\* measure_all(collapse)(register) when cp.random.choice returns m
measure_all(collapse, reg, m) ==
    LET multiindex == Unravel(m, reg.ndim)
    IN  [ret |-> multiindex,
         reg |-> IF collapse
                 THEN Tensor(reg.ndim, OneHot(reg.ndim, multiindex, NOne), ROne, FALSE)
                 ELSE reg]

\* r / cp.linalg.norm(r) is all NaN and cp.random.choice rejects p
MeasureAllFails(reg) == reg.nan \/ Norm2Num(reg) = RZero

---------------------------------------------------------------------------
(* Circuits *)

\* circuit(ops)(register): the value after folding the operators over it
RECURSIVE circ(_, _)
circ(ops, reg) ==
    IF ops = <<>> THEN Ok(reg)
    ELSE LET r == Call(Head(ops), reg)
         IN  IF r.err # "" THEN r ELSE circ(Tail(ops), r.val)

\* which array circuit(ops)(register) returns: the argument itself when ops
\* is empty, else the fresh array the last operator returned
CircRef(ops, ref) == IF ops = <<>> THEN ref ELSE "fresh"

---------------------------------------------------------------------------
(* The operators a caller can build *)

\* k distinct axes of a rank-n register, in any order
ValidTuples(n, k) ==
    {t \in [1..k -> 0..(n - 1)] : \A a, b \in 1..k : a # b => t[a] # t[b]}

\* angles m * pi/4
RTurns == 0..7

OpsOver(n, tuples(_)) ==
    {Op(name, t) : name \in UnaryNames, t \in tuples(1)}
    \cup {Op("R", <<t[1], m>>) : t \in tuples(1), m \in RTurns}
    \cup {Op(name, t) : name \in BinaryNames, t \in tuples(2)}
    \cup {Op(name, t) : name \in TernaryNames, t \in tuples(3)}

ValidOps(n) == LET tuples(k) == ValidTuples(n, k) IN OpsOver(n, tuples)

\* a target tuple is valid when its indices are distinct axes in [0, n)
ValidTargets(n, t) ==
    /\ \A r \in 1..Len(t) : t[r] \in 0..(n - 1)
    /\ \A a, b \in 1..Len(t) : a # b => t[a] # t[b]

\* operators with a target outside [0, n) or a repeated target, the indices
\* running from -(n+1) to n
InvalidOps(n) ==
    LET tuples(k) == {t \in [1..k -> (-(n + 1))..n] : ~ValidTargets(n, t)}
    IN  OpsOver(n, tuples)

\* the record of a call
Called(op, on, arg, ops, ret, err, pre, aux) ==
    [op |-> op, on |-> on, arg |-> arg, ops |-> ops, ret |-> ret, err |-> err,
     pre |-> pre, aux |-> aux]

NoCall(reg) == Called("init", "register", Op("init", <<>>), <<>>, <<>>, "", reg, <<>>)

---------------------------------------------------------------------------
(* Gate application to a fresh register: one call per behaviour *)

ApplyInputs ==
    UNION {{quantum_register(n)} \cup {random_register(n, d) : d \in Draws(n)} :
              n \in 1..MaxRank}

ApplyInit ==
    /\ register \in ApplyInputs
    /\ out = <<>>
    /\ last = NoCall(register)
    /\ steps = 0
    /\ origin = "random_register"

\* out = op(register)
ApplyGate(op) ==
    /\ steps = 0
    /\ LET r == Call(op, register)
       IN  /\ out' = IF r.err = "" THEN <<r.val>> ELSE <<>>
           /\ last' = Called("gate", "register", op, <<op>>, <<>>, r.err, register, <<>>)
    /\ steps' = 1
    /\ UNCHANGED <<register, origin>>

\* test_binary_gates: out3 and swap computed from the same input
test_binary_gates ==
    /\ steps = 0
    /\ register.ndim = BinaryTestQubits
    /\ LET out1 == Call(Op("CNOT", <<0, 1>>), register).val
           out2 == Call(Op("CNOT", <<1, 0>>), out1).val
           out3 == Call(Op("CNOT", <<0, 1>>), out2).val
           swap == Call(Op("SWAP", <<0, 1>>), register).val
       IN  /\ out' = <<out3>>
           /\ last' = Called("test_binary_gates", "register", Op("SWAP", <<0, 1>>),
                             <<Op("CNOT", <<0, 1>>), Op("CNOT", <<1, 0>>),
                               Op("CNOT", <<0, 1>>)>>,
                             <<>>, "", register, <<swap>>)
    /\ steps' = 1
    /\ UNCHANGED <<register, origin>>

\* test_ternary_gates, for any ternary gate on any three distinct axes:
\* out = op(op(inp))
test_ternary_gates(op) ==
    /\ steps = 0
    /\ register.ndim = TernaryTestQubits
    /\ op.name \in TernaryNames
    /\ LET once == Call(op, register).val
           twice == Call(op, once).val
       IN  /\ out' = <<twice>>
           /\ last' = Called("test_ternary_gates", "register", op, <<op, op>>,
                             <<>>, "", register, <<once>>)
    /\ steps' = 1
    /\ UNCHANGED <<register, origin>>

ApplyNext ==
    \/ steps = 0 /\ \E op \in ValidOps(register.ndim) : ApplyGate(op)
    \/ steps = 0 /\ register.ndim <= MaxQubits
                 /\ \E op \in InvalidOps(register.ndim) : ApplyGate(op)
    \/ test_binary_gates
    \/ steps = 0 /\ \E op \in ValidOps(register.ndim) : test_ternary_gates(op)

SpecApply == ApplyInit /\ [][ApplyNext]_vars

---------------------------------------------------------------------------
(* A caller's session: a 2-qubit register is built, then gates and       *)
(* measurements are called on it and on the arrays the gates return      *)

\* the gates the script's main block draws from
MainOps ==
    {Op("H", <<0>>), Op("X", <<0>>), Op("Y", <<0>>), Op("Z", <<0>>), Op("S", <<0>>),
     Op("T", <<0>>), Op("CNOT", <<0, 1>>), Op("SWAP", <<0, 1>>),
     Op("CCNOT", <<0, 1, 2>>), Op("CSWAP", <<0, 1, 2>>)}

\* the circuits given to measure_circuit: the prefixes of test_circuits' list
Circuits == {<<>>, <<Op("H", <<0>>)>>, <<Op("H", <<0>>), Op("CNOT", <<0, 1>>)>>}

Refs == {"register", "out"}

Built ==
    LET n == UnaryTestQubits
    IN  {[reg |-> quantum_register(n), by |-> "quantum_register"]}
        \cup {[reg |-> random_register(n, d), by |-> "random_register"] : d \in DenseDraws(n)}
        \cup {[reg |-> a, by |-> "raw"] : a \in RawArrays(n)}
        \cup {[reg |-> PartialFixture, by |-> "array"], [reg |-> FullFixture, by |-> "array"]}

Init ==
    /\ \E b \in Built : register = b.reg /\ origin = b.by
    /\ out = <<>>
    /\ last = NoCall(register)
    /\ steps = 0

Has(ref) == ref = "register" \/ out # <<>>

Deref(ref) == IF ref = "register" THEN register ELSE out[1]

\* the array `ref` names holds val afterwards; the other array is untouched
Store(ref, val) ==
    IF ref = "register"
    THEN register' = val /\ out' = out
    ELSE register' = register /\ out' = <<val>>

\* a variant in which the operator writes its result into its argument
ArgumentRef(ref) == ref

\* where the array an operator returns lives: tensordot allocates it, and
\* the caller binds it to out
ResultRef(ref) == "out"

\* out = op(ref)
Apply(op, ref) ==
    /\ steps < MaxSteps
    /\ Has(ref)
    /\ LET r == Call(op, Deref(ref))
       IN  /\ IF r.err = "" THEN Store(ResultRef(ref), r.val)
              ELSE UNCHANGED <<register, out>>
           /\ last' = Called("gate", ref, op, <<op>>, <<>>, r.err, Deref(ref), <<>>)
    /\ steps' = steps + 1
    /\ UNCHANGED origin

\* measure(index)(ref), cp.random.rand() returning un / UGrid
Measure(index, un, ref) ==
    /\ steps < MaxSteps
    /\ Has(ref)
    /\ index < Deref(ref).ndim
    /\ LET r == measure(index, Deref(ref), un)
       IN  /\ Store(ref, r.reg)
           /\ last' = Called("measure", ref, Op("measure", <<index, un>>), <<>>,
                             <<r.ret>>, "", Deref(ref), <<>>)
    /\ steps' = steps + 1
    /\ UNCHANGED origin

Flag(b) == IF b THEN 1 ELSE 0

\* measure_all(collapse)(ref): cp.random.choice returns some m, or raises on
\* an array of norm 0 or NaN
MeasureAll(collapse, ref) ==
    /\ steps < MaxSteps
    /\ Has(ref)
    /\ IF MeasureAllFails(Deref(ref))
       THEN /\ last' = Called("measure_all", ref, Op("measure_all", <<Flag(collapse)>>),
                              <<>>, <<>>, "ValueError", Deref(ref), <<>>)
            /\ UNCHANGED <<register, out>>
       ELSE \E m \in Choices(Deref(ref)) :
               LET r == measure_all(collapse, Deref(ref), m)
               IN  /\ Store(ref, r.reg)
                   /\ last' = Called("measure_all", ref,
                                     Op("measure_all", <<Flag(collapse)>>),
                                     <<>>, r.ret, "", Deref(ref), <<>>)
    /\ steps' = steps + 1
    /\ UNCHANGED origin

\* measure_circuit(ops, index)(ref); index = -1 stands for None
MeasureCircuit(ops, ref) ==
    /\ steps < MaxSteps
    /\ Has(ref)
    /\ LET c == circ(ops, Deref(ref))
           at == CircRef(ops, ref)
           rec(index, ret, err, aux) ==
               Called("measure_circuit", ref, Op("measure_circuit", <<index>>), ops,
                      ret, err, Deref(ref), aux)
       IN  \E index \in -1..(Deref(ref).ndim - 1) :
              IF c.err # "" \/ (index = -1 /\ MeasureAllFails(c.val))
              THEN /\ last' = rec(index, <<>>,
                                  IF c.err # "" THEN c.err ELSE "ValueError", <<>>)
                   /\ UNCHANGED <<register, out>>
              ELSE \E r \in IF index = -1
                            THEN {measure_all(TRUE, c.val, m) : m \in Choices(c.val)}
                            ELSE {measure(index, c.val, un) : un \in 0..(UGrid - 1)} :
                      /\ IF at = "fresh" THEN UNCHANGED <<register, out>>
                         ELSE Store(at, r.reg)
                      /\ last' = rec(index, IF index = -1 THEN r.ret ELSE <<r.ret>>,
                                     "", <<r.reg>>)
    /\ steps' = steps + 1
    /\ UNCHANGED origin

Next ==
    \/ \E ref \in Refs, op \in MainOps : Apply(op, ref)
    \/ \E ref \in Refs, index \in 0..(UnaryTestQubits - 1), un \in 0..(UGrid - 1) :
          Measure(index, un, ref)
    \/ \E ref \in Refs, collapse \in BOOLEAN : MeasureAll(collapse, ref)
    \/ \E ref \in Refs, ops \in Circuits : MeasureCircuit(ops, ref)

Spec == Init /\ [][Next]_vars

---------------------------------------------------------------------------
(* Properties of gate application (SpecApply) *)

\* idx with the coordinates on the axes `targets` replaced by `in`
WithTargets(idx, targets, in) ==
    [a \in 1..Len(idx) |->
        IF (a - 1) \in Range(targets) THEN in[IndexOf(targets, a - 1) + 1] ELSE idx[a]]

\* the coordinates of idx on the axes `targets`, in the order listed
OnTargets(idx, targets) == [r \in 1..Len(targets) |-> idx[targets[r] + 1]]

GateAt(gate, idx) == gate.amp[Ravel(idx) + 1]

\* sum over in of register[.. in ..] * G[in, o]: first k axes input, last k output
InputOutputEntry(gate, targets, reg, idx) ==
    LET k == Len(targets)
    IN  NSum(SeqOf([m \in 1..(2^k) |->
                      NMul(At(reg, WithTargets(idx, targets, Unravel(m - 1, k))),
                           GateAt(gate, Unravel(m - 1, k) \o OnTargets(idx, targets)))], 2^k))

AppliedValid ==
    /\ last.op = "gate"
    /\ ValidTargets(last.pre.ndim, Targets(last.arg))

\* C1: an applied gate acts with its first k axes as output indices and its
\* last k axes as input indices: every entry of the result is the sum over
\* the input values of G[out, in] times the register entry with those input
\* values on the target axes (so Y acts as [[0,-i],[i,0]], CY as controlled Y)
C1_FirstAxesAreOutputs ==
    AppliedValid =>
        LET gate == GateOf(last.arg)
            targets == Targets(last.arg)
            k == Len(targets)
            expected(idx) ==
                NSum(SeqOf([m \in 1..(2^k) |->
                       NMul(GateAt(gate, OnTargets(idx, targets) \o Unravel(m - 1, k)),
                            At(last.pre, WithTargets(idx, targets, Unravel(m - 1, k))))],
                     2^k))
        IN  /\ last.err = "" /\ out # <<>>
            /\ \A idx \in Bits(last.pre.ndim) : At(out[1], idx) = expected(idx)

\* C5: applying a gate with a target outside [0, n), negative included, or
\* with a repeated target raises an error and returns no state tensor
C5_InvalidTargetRaises ==
    (last.op = "gate" /\ ~ValidTargets(last.pre.ndim, Targets(last.arg))) =>
        (last.err # "" /\ out = <<>>)

\* C7: on a 3-qubit register CNOT(0,1), CNOT(1,0), CNOT(0,1) in turn give the
\* tensor SWAP(0,1) gives, which is the register with axes 0 and 1 exchanged
C7_CnotTripleIsSwap ==
    last.op = "test_binary_gates" =>
        /\ out[1] = last.aux[1]
        /\ last.aux[1].ndim = last.pre.ndim /\ last.aux[1].den = last.pre.den
        /\ ~last.aux[1].nan
        /\ \A idx \in Bits(BinaryTestQubits) :
              At(last.aux[1], idx) = At(last.pre, <<idx[2], idx[1], idx[3]>>)

C7_Witness ==
    /\ last.op = "test_binary_gates"
    /\ out # <<>> /\ out[1] # last.pre
    /\ At(last.pre, <<0, 1, 0>>) # At(last.pre, <<1, 0, 0>>)

\* C8: on a 4-qubit register CCNOT(i,j,k) applied twice, and CSWAP(i,j,k)
\* applied twice, give back the register, for distinct i, j, k in any order
C8_TernaryInvolution ==
    last.op = "test_ternary_gates" => (out # <<>> /\ out[1] = last.pre)

C8_Witness ==
    /\ last.op = "test_ternary_gates"
    /\ last.arg = Op("CSWAP", <<0, 3, 2>>)
    /\ last.aux[1] # last.pre
    /\ out # <<>>

\* C9: for distinct targets in [0, n) in any order get_transposition returns
\* a permutation sending target indices[r] to n-k+r and the other axes to
\* 0..n-k-1 in increasing order, and the transposed contraction has the
\* register's rank, shape and axis order
C9_TranspositionRestoresAxes ==
    AppliedValid =>
        LET n == last.pre.ndim
            indices == Targets(last.arg)
            k == Len(indices)
            perm == get_transposition(n, indices)
        IN  /\ Len(perm) = n /\ Range(perm) = 0..(n - 1)
            /\ \A r \in 1..k : perm[indices[r] + 1] = n - k + (r - 1)
            /\ \A a \in 0..(n - 1) :
                  a \notin Range(indices) =>
                      perm[a + 1] = Cardinality({b \in 0..(a - 1) : b \notin Range(indices)})
            /\ last.err = "" /\ out # <<>>
            /\ out[1].ndim = n /\ Len(out[1].amp) = 2^n
            /\ \A idx \in Bits(n) :
                  At(out[1], idx)
                      = InputOutputEntry(GateOf(last.arg), indices, last.pre, idx)

C9_Witness ==
    /\ AppliedValid
    /\ last.arg = Op("CCNOT", <<0, 3, 2>>)
    /\ last.pre.ndim = TernaryTestQubits
    /\ out # <<>> /\ out[1] # last.pre

---------------------------------------------------------------------------
(* Properties of a session of calls (Spec) *)

\* C2: the squared magnitudes of a register sum to 1 after construction by
\* quantum_register or random_register, after every catalog gate applied to
\* a normalized register and after every collapse, for any sequence of calls
C2_AlwaysNormalized ==
    origin # "raw" =>
        /\ Normalized(register)
        /\ out # <<>> => Normalized(out[1])

\* C3: after measure(index) on a normalized register returns b, the entries
\* whose coordinate on axis index differs from b are zero, the others are
\* the original ones over a common positive factor, the norm is 1, and the
\* marginal probability of b was non-zero
C3_CollapseKeepsOutcome ==
    (last.op = "measure" /\ Normalized(last.pre)) =>
        LET index == last.arg.args[1]
            b == last.ret[1]
            post == Deref(last.on)
        IN  /\ ~post.nan
            /\ RPos(post.den)
            /\ \A m \in 1..(2^post.ndim) :
                  post.amp[m] = IF BitAt(m - 1, post.ndim, index) = b
                                THEN last.pre.amp[m] ELSE NZero
            /\ Normalized(post)
            /\ Marginal(last.pre, index, b) # RZero

\* C4: measure_all(collapse=False) leaves every entry of the register as it
\* was, normalized or not, call after call; measure_all(collapse=True)
\* leaves the tensor that is 1 at the returned multi-index and 0 elsewhere
C4_MeasureAllFrame ==
    last.op = "measure_all" =>
        /\ last.arg.args[1] = 0 => Deref(last.on) = last.pre
        /\ (last.arg.args[1] = 1 /\ last.err = "") =>
              /\ Len(last.ret) = last.pre.ndim
              /\ Deref(last.on)
                    = Tensor(last.pre.ndim, OneHot(last.pre.ndim, last.ret, NOne), ROne, FALSE)

C4_Witness ==
    /\ last.op = "measure_all" /\ last.arg.args[1] = 0 /\ last.err = ""
    /\ steps = MaxSteps
    /\ origin = "raw" /\ last.on = "register"
    /\ ~Normalized(last.pre)
    /\ last.ret # <<>> /\ At(last.pre, last.ret) # NZero

\* C6: measure(index) on a register whose two marginal probabilities on the
\* axis are both zero reports an error and leaves no NaN amplitude
C6_ZeroStateRaises ==
    (/\ last.op = "measure"
     /\ ~last.pre.nan
     /\ Marginal(last.pre, last.arg.args[1], 0) = RZero
     /\ Marginal(last.pre, last.arg.args[1], 1) = RZero) =>
        (last.err # "" /\ ~Deref(last.on).nan)

\* C10: a gate application leaves the register it is applied to unchanged
\* and returns a new tensor; the register changes only under measure,
\* measure_all(collapse=True), or a measurement of the empty circuit, which
\* is the register itself; measure_circuit with a non-empty circuit leaves
\* the caller's arrays unchanged
C10_GatesArePure ==
    [][ /\ last'.op = "gate" => register' = register
        /\ (last'.op = "gate" /\ last'.err = "" /\ steps' # steps) =>
              out' = <<Call(last'.arg, last'.pre).val>>
        /\ register' # register =>
              /\ last'.on = "register"
              /\ \/ last'.op = "measure"
                 \/ last'.op = "measure_all" /\ last'.arg.args[1] = 1
                 \/ last'.op = "measure_circuit" /\ last'.ops = <<>>
        /\ (last'.op = "measure_circuit" /\ last'.ops # <<>>) =>
              (register' = register /\ out' = out)
      ]_vars

C10_Witness ==
    /\ steps = MaxSteps
    /\ last.op = "gate" /\ last.on = "register" /\ last.err = ""
    /\ register = last.pre
    /\ out # <<>> /\ out[1] # register

============================================================================
